---- MODULE Spec2Model ----
(***************************************************************************)
(* Model of the PSP22 / ERC-20 swapper contract (src/lib.rs).              *)
(*                                                                         *)
(* The contract (the "bridge") stores a registry asset_pairs from asset id *)
(* to an ERC-20 contract reference and one default reference asset_pair.   *)
(* Its messages call two collaborators: ERC-20 token contracts (cross      *)
(* contract calls, the bridge is the caller the token sees) and the host   *)
(* chain extension (status code + output).  A panic (expect / assert! /    *)
(* unknown status code) traps the call, and the ledger then reverts every  *)
(* state change made during the call.                                      *)
(***************************************************************************)
EXTENDS Integers, Sequences, FiniteSets, TLC

(* ------------------------------ bounds --------------------------------- *)

\* Largest amount / value argument passed to a message.
MaxAmount == 1

\* Largest status code the host answers with (0 ok, 1 error, above: unknown).
MaxStatus == 2

(* ------------------------------ universe ------------------------------- *)

Bridge == "bridge"
Users == {"alice", "bob"}
Accounts == Users \cup {Bridge}

\* The users who approve the bridge on token contracts; the others hold
\* tokens the bridge was never approved for.
Approvers == {"alice"}

\* Deployed ERC-20 token contracts, and one address that is no token contract.
Tokens == {"tokA", "tokB"}
NoContract == "eoa"
Refs == Tokens \cup {NoContract}

AssetIds == {1, 2}
Amounts == 0 .. MaxAmount
StatusCodes == 0 .. MaxStatus

\* Option::None of Mapping::get.
None == "None"

(* ------------------------------ state ---------------------------------- *)

VARIABLES
    asset_pairs,        \* storage: Mapping<AssetId, Erc20Ref>
    asset_pair,         \* storage: the default ERC-20 reference
    erc20_balances,     \* per token contract: account -> balance
    erc20_allowances,   \* per token contract: <<owner, spender>> -> allowance
    ext_balances,       \* host assets: per asset id: account -> balance
    ext_allowances,     \* host assets: per asset id: <<owner, spender>> -> allowance
    swapped,            \* history: per asset id, what swap calls pulled / released
    registered,         \* history: per asset id, the reference last passed to create_asset_pair
    last                \* history: the last call, its arguments and its outcome

vars == <<asset_pairs, asset_pair, erc20_balances, erc20_allowances,
          ext_balances, ext_allowances, swapped, registered, last>>

\* The ledger state a call reads and writes, as one value.
World == [asset_pairs |-> asset_pairs, asset_pair |-> asset_pair,
          erc20_balances |-> erc20_balances, erc20_allowances |-> erc20_allowances,
          ext_balances |-> ext_balances, ext_allowances |-> ext_allowances]

(* ------------------------------ results -------------------------------- *)

\* A value returned by a call: Ok(num / bytes) or Err(err).
Ok(num, bytes) == [kind |-> "Ok", num |-> num, bytes |-> bytes, err |-> ""]
OkUnit == Ok(0, <<>>)
Err(e) == [kind |-> "Err", num |-> 0, bytes |-> <<>>, err |-> e]
NoResult == [kind |-> "None", num |-> 0, bytes |-> <<>>, err |-> ""]

\* The call returned `result` and its writes (world w) are kept.
\* host_status is <<>> until the host has answered, then <<its status code>>.
Returned(w, result, calls) ==
    [w |-> w, outcome |-> "returned", result |-> result, msg |-> "",
     calls |-> calls, host_status |-> <<>>]

\* The call trapped with panic message `msg`: the ledger reverts to w0, the
\* world before the call.
Aborted(w0, msg, calls) ==
    [w |-> w0, outcome |-> "aborted", result |-> NoResult, msg |-> msg,
     calls |-> calls, host_status |-> <<>>]

\* The same outcome, with the status code the host answered with.
Answered(r, status) == [r EXCEPT !.host_status = <<status>>]

(* ------------------- ERC-20 token contracts (collaborator) ------------- *)

\* Value moved between two accounts of one balance sheet.
Move(bal, from, to, value) ==
    [bal EXCEPT ![from] = @ - value, ![to] = @ + value]

\* A reply of a token contract: ok, or the error it returns, and the world after.
Erc20Reply(ok, err, w) == [ok |-> ok, err |-> err, w |-> w]

\* token.transfer(to, value) called by `caller`.
erc20_transfer(w, token, caller, to, value) ==
    IF w.erc20_balances[token][caller] < value
    THEN Erc20Reply(FALSE, "InsufficientBalance", w)
    ELSE Erc20Reply(TRUE, "",
            [w EXCEPT !.erc20_balances[token] = Move(@, caller, to, value)])

\* token.approve(spender, value) called by `owner`.
erc20_approve(w, token, owner, spender, value) ==
    Erc20Reply(TRUE, "",
        [w EXCEPT !.erc20_allowances[token][<<owner, spender>>] = value])

\* token.transfer_from(from, to, value) called by `spender`.
erc20_transfer_from(w, token, spender, from, to, value) ==
    IF w.erc20_allowances[token][<<from, spender>>] < value
    THEN Erc20Reply(FALSE, "InsufficientAllowance", w)
    ELSE IF w.erc20_balances[token][from] < value
    THEN Erc20Reply(FALSE, "InsufficientBalance", w)
    ELSE Erc20Reply(TRUE, "",
            [w EXCEPT !.erc20_balances[token] = Move(@, from, to, value),
                      !.erc20_allowances[token][<<from, spender>>] = @ - value])

RECURSIVE SumOver(_, _)
SumOver(f, S) ==
    IF S = {} THEN 0
    ELSE LET x == CHOOSE y \in S : TRUE IN f[x] + SumOver(f, S \ {x})

erc20_total_supply(w, token) == SumOver(w.erc20_balances[token], Accounts)

erc20_balance_of(w, token, owner) == w.erc20_balances[token][owner]

erc20_allowance(w, token, owner, spender) ==
    w.erc20_allowances[token][<<owner, spender>>]

(* ------------------- host chain extension (collaborator) --------------- *)

\* The account the host acts for when the bridge calls the extension: the
\* bridge's own account (its asset balance funds leg 2 of a swap).
HostOrigin == Bridge

\* The status code of a host call: `imposed` when the host refuses the call
\* for reasons of its own (imposed # 0), else 0 when the call can be served
\* and 1 when it cannot.
HostStatus(feasible, imposed) ==
    IF imposed # 0 THEN imposed ELSE IF feasible THEN 0 ELSE 1

\* A reply of the host: status code, output (num / bytes), and the world after.
HostReply(status, num, bytes, w) ==
    [status |-> status, num |-> num, bytes |-> bytes, w |-> w]

\* Metadata of the host's assets.
HostName(asset_id) == <<84, 48 + asset_id>>
HostSymbol(asset_id) == <<48 + asset_id>>
HostDecimals(asset_id) == 10 + asset_id

host_token_name(w, asset_id, imposed) ==
    HostReply(HostStatus(TRUE, imposed), 0, HostName(asset_id), w)

host_token_symbol(w, asset_id, imposed) ==
    HostReply(HostStatus(TRUE, imposed), 0, HostSymbol(asset_id), w)

host_token_decimals(w, asset_id, imposed) ==
    HostReply(HostStatus(TRUE, imposed), HostDecimals(asset_id), <<>>, w)

host_total_supply(w, asset_id, imposed) ==
    HostReply(HostStatus(TRUE, imposed),
              SumOver(w.ext_balances[asset_id], Accounts), <<>>, w)

host_balance_of(w, asset_id, owner, imposed) ==
    HostReply(HostStatus(TRUE, imposed), w.ext_balances[asset_id][owner], <<>>, w)

host_allowance(w, asset_id, owner, spender, imposed) ==
    HostReply(HostStatus(TRUE, imposed),
              w.ext_allowances[asset_id][<<owner, spender>>], <<>>, w)

\* A mutator's reply: the world changes only when the status is 0.
HostMutation(feasible, imposed, w, w2) ==
    LET status == HostStatus(feasible, imposed)
    IN  HostReply(status, 0, <<>>, IF status = 0 THEN w2 ELSE w)

host_transfer(w, asset_id, to, value, imposed) ==
    HostMutation(w.ext_balances[asset_id][HostOrigin] >= value, imposed, w,
        [w EXCEPT !.ext_balances[asset_id] = Move(@, HostOrigin, to, value)])

host_transfer_from(w, asset_id, from, to, value, imposed) ==
    HostMutation(/\ w.ext_allowances[asset_id][<<from, HostOrigin>>] >= value
                 /\ w.ext_balances[asset_id][from] >= value,
        imposed, w,
        [w EXCEPT !.ext_balances[asset_id] = Move(@, from, to, value),
                  !.ext_allowances[asset_id][<<from, HostOrigin>>] = @ - value])

host_approve(w, asset_id, spender, value, imposed) ==
    HostMutation(TRUE, imposed, w,
        [w EXCEPT !.ext_allowances[asset_id][<<HostOrigin, spender>>] = value])

host_increase_allowance(w, asset_id, spender, value, imposed) ==
    HostMutation(TRUE, imposed, w,
        [w EXCEPT !.ext_allowances[asset_id][<<HostOrigin, spender>>] = @ + value])

host_decrease_allowance(w, asset_id, spender, value, imposed) ==
    HostMutation(w.ext_allowances[asset_id][<<HostOrigin, spender>>] >= value,
        imposed, w,
        [w EXCEPT !.ext_allowances[asset_id][<<HostOrigin, spender>>] = @ - value])

(* ------------------- extension client and error mapping ---------------- *)

\* Variant: every status code other than 0 is the one error.
from_status_code_lenient(status_code) ==
    IF status_code = 0 THEN [kind |-> "Ok", err |-> "", msg |-> ""]
    ELSE [kind |-> "Err", err |-> "TotalSupplyFailed", msg |-> ""]

\* FromStatusCode for Psp22Error: 0 is success, 1 the one error, else panic.
from_status_code(status_code) ==
    CASE status_code = 0 -> [kind |-> "Ok", err |-> "", msg |-> ""]
      [] status_code = 1 -> [kind |-> "Err", err |-> "TotalSupplyFailed", msg |-> ""]
      [] OTHER -> [kind |-> "Panic", err |-> "",
                   msg |-> "encountered unknown status code"]

\* What an extension method hands back for a host reply: Ok(output) on
\* success, Err on the error status, a panic otherwise.
ExtResult(reply) ==
    LET sc == from_status_code(reply.status)
    IN  [kind |-> sc.kind,
         result |-> IF sc.kind = "Ok" THEN Ok(reply.num, reply.bytes)
                    ELSE IF sc.kind = "Err" THEN Err(sc.err) ELSE NoResult,
         msg |-> sc.msg,
         status |-> reply.status,
         w |-> reply.w]

ext_token_name(w, asset_id, imposed) ==
    ExtResult(host_token_name(w, asset_id, imposed))
ext_token_symbol(w, asset_id, imposed) ==
    ExtResult(host_token_symbol(w, asset_id, imposed))
ext_token_decimals(w, asset_id, imposed) ==
    ExtResult(host_token_decimals(w, asset_id, imposed))
ext_total_supply(w, asset_id, imposed) ==
    ExtResult(host_total_supply(w, asset_id, imposed))
ext_balance_of(w, asset_id, owner, imposed) ==
    ExtResult(host_balance_of(w, asset_id, owner, imposed))
ext_allowance(w, asset_id, owner, spender, imposed) ==
    ExtResult(host_allowance(w, asset_id, owner, spender, imposed))
ext_transfer(w, asset_id, to, value, imposed) ==
    ExtResult(host_transfer(w, asset_id, to, value, imposed))
ext_transfer_from(w, asset_id, from, to, value, imposed) ==
    ExtResult(host_transfer_from(w, asset_id, from, to, value, imposed))
ext_approve(w, asset_id, spender, value, imposed) ==
    ExtResult(host_approve(w, asset_id, spender, value, imposed))
ext_increase_allowance(w, asset_id, spender, value, imposed) ==
    ExtResult(host_increase_allowance(w, asset_id, spender, value, imposed))
ext_decrease_allowance(w, asset_id, spender, value, imposed) ==
    ExtResult(host_decrease_allowance(w, asset_id, spender, value, imposed))

(* ------------------- the contract's messages --------------------------- *)

\* Storage after construction.
new(erc20_address) ==
    [asset_pairs |-> [a \in AssetIds |-> None], asset_pair |-> erc20_address]

\* Variant: the entry is inserted only when asset_id has none.
create_asset_pair_if_absent(w, asset_id, erc20_address) ==
    Returned(IF w.asset_pairs[asset_id] = None
             THEN [w EXCEPT !.asset_pairs[asset_id] = erc20_address] ELSE w,
             NoResult, <<>>)

\* Variant: a reference that is no token contract is rejected.
create_asset_pair_validated(w, asset_id, erc20_address) ==
    IF erc20_address \notin Tokens THEN Aborted(w, "not a token contract", <<>>)
    ELSE Returned([w EXCEPT !.asset_pairs[asset_id] = erc20_address], NoResult, <<>>)

\* Variant: a reference registered under another id is rejected.
create_asset_pair_unique(w, asset_id, erc20_address) ==
    IF \E i \in AssetIds \ {asset_id} : w.asset_pairs[i] = erc20_address
    THEN Aborted(w, "already registered", <<>>)
    ELSE Returned([w EXCEPT !.asset_pairs[asset_id] = erc20_address], NoResult, <<>>)

\* Variant: the registered reference also becomes the default reference.
create_asset_pair_setting_default(w, asset_id, erc20_address) ==
    Returned([w EXCEPT !.asset_pairs[asset_id] = erc20_address,
                       !.asset_pair = erc20_address], NoResult, <<>>)

\* create_asset_pair: insert or overwrite the entry of asset_id.
create_asset_pair(w, asset_id, erc20_address) ==
    Returned([w EXCEPT !.asset_pairs[asset_id] = erc20_address], NoResult, <<>>)

\* Variant: the message asserts the extension method's result.
Relay_asserting(w0, r, call) ==
    Answered(IF r.kind # "Ok" THEN Aborted(w0, "ext_result", <<call>>)
             ELSE Returned(r.w, r.result, <<call>>),
             r.status)

\* A message that returns what the extension method returns.
Relay(w0, r, call) ==
    Answered(IF r.kind = "Panic" THEN Aborted(w0, r.msg, <<call>>)
             ELSE Returned(r.w, r.result, <<call>>),
             r.status)

\* Variant: leg 2 transfers to the bridge's own account.
SwapLeg2_to_bridge(w0, w1, caller, asset_id, amount, imposed, calls) ==
    LET ext_result == ext_transfer(w1, asset_id, Bridge, amount, imposed)
        calls2 == Append(calls, "ext.transfer")
    IN  Answered(IF ext_result.kind = "Panic"
                 THEN Aborted(w0, ext_result.msg, calls2)
                 ELSE IF ext_result.kind # "Ok"
                 THEN Aborted(w0, "ext_result", calls2)
                 ELSE Returned(ext_result.w, NoResult, calls2),
                 ext_result.status)

\* Variant: the result of leg 2 is not asserted.
SwapLeg2_unasserted(w0, w1, caller, asset_id, amount, imposed, calls) ==
    LET ext_result == ext_transfer(w1, asset_id, caller, amount, imposed)
        calls2 == Append(calls, "ext.transfer")
    IN  Answered(IF ext_result.kind = "Panic"
                 THEN Aborted(w0, ext_result.msg, calls2)
                 ELSE Returned(ext_result.w, NoResult, calls2),
                 ext_result.status)

\* The second leg of both swaps: extension transfer to the caller, asserted ok.
SwapLeg2(w0, w1, caller, asset_id, amount, imposed, calls) ==
    LET ext_result == ext_transfer(w1, asset_id, caller, amount, imposed)
        calls2 == Append(calls, "ext.transfer")
    IN  Answered(IF ext_result.kind = "Panic"
                 THEN Aborted(w0, ext_result.msg, calls2)
                 ELSE IF ext_result.kind # "Ok"
                 THEN Aborted(w0, "ext_result", calls2)
                 ELSE Returned(ext_result.w, NoResult, calls2),
                 ext_result.status)

\* Variant: the result of leg 1 is not asserted.
swap_for_asset_unasserted(w, caller, asset_id, amount, imposed) ==
    LET erc20 == w.asset_pairs[asset_id]
        calls == <<"erc20.transfer_from">>
    IN  IF erc20 = None THEN Aborted(w, "Asset pair not found!", <<>>)
        ELSE IF erc20 \notin Tokens THEN Aborted(w, "contract call failed", calls)
        ELSE SwapLeg2(w, erc20_transfer_from(w, erc20, Bridge, caller, Bridge,
                                             amount).w,
                      caller, asset_id, amount, imposed, calls)

\* Variant: a missing registry entry falls back to the default reference.
swap_for_asset_or_default(w, caller, asset_id, amount, imposed) ==
    LET erc20 == IF w.asset_pairs[asset_id] = None THEN w.asset_pair
                 ELSE w.asset_pairs[asset_id]
        calls == <<"erc20.transfer_from">>
    IN  IF erc20 \notin Tokens THEN Aborted(w, "contract call failed", calls)
        ELSE LET erc20_result ==
                     erc20_transfer_from(w, erc20, Bridge, caller, Bridge, amount)
             IN  IF ~erc20_result.ok THEN Aborted(w, "erc20_result", calls)
                 ELSE SwapLeg2(w, erc20_result.w, caller, asset_id, amount,
                               imposed, calls)

\* swap_for_asset: registry lookup, leg 1 on the entry, leg 2.
swap_for_asset(w, caller, asset_id, amount, imposed) ==
    LET erc20 == w.asset_pairs[asset_id]
        calls == <<"erc20.transfer_from">>
    IN  IF erc20 = None THEN Aborted(w, "Asset pair not found!", <<>>)
        ELSE IF erc20 \notin Tokens THEN Aborted(w, "contract call failed", calls)
        ELSE LET erc20_result ==
                     erc20_transfer_from(w, erc20, Bridge, caller, Bridge, amount)
             IN  IF ~erc20_result.ok THEN Aborted(w, "erc20_result", calls)
                 ELSE SwapLeg2(w, erc20_result.w, caller, asset_id, amount,
                               imposed, calls)

\* Erc20Trait for the bridge: every message delegates to asset_pair, which
\* sees the bridge as its caller.  A reference that is no token contract
\* makes the call fail (reply FALSE with no error value: the call traps).
\* Variant: the token sees the owner, not the bridge, as its caller.
Erc20Trait_transfer_from_as_owner(w, from, to, value) ==
    IF w.asset_pair \notin Tokens THEN Erc20Reply(FALSE, "", w)
    ELSE erc20_transfer_from(w, w.asset_pair, from, from, to, value)

Erc20Trait_transfer_from(w, from, to, value) ==
    IF w.asset_pair \notin Tokens THEN Erc20Reply(FALSE, "", w)
    ELSE erc20_transfer_from(w, w.asset_pair, Bridge, from, to, value)

Erc20Trait_transfer(w, to, value) ==
    IF w.asset_pair \notin Tokens THEN Erc20Reply(FALSE, "", w)
    ELSE erc20_transfer(w, w.asset_pair, Bridge, to, value)

Erc20Trait_approve(w, spender, value) ==
    IF w.asset_pair \notin Tokens THEN Erc20Reply(FALSE, "", w)
    ELSE erc20_approve(w, w.asset_pair, Bridge, spender, value)

\* Variant: leg 1 goes to the registry entry of asset_id.
swap_asset_via_registry(w, caller, asset_id, amount, imposed) ==
    swap_for_asset(w, caller, asset_id, amount, imposed)

\* Variant: the result of leg 1 is not asserted.
swap_asset_unasserted(w, caller, asset_id, amount, imposed) ==
    SwapLeg2(w, Erc20Trait_transfer_from(w, caller, Bridge, amount).w,
             caller, asset_id, amount, imposed, <<"erc20.transfer_from">>)

\* Variant: leg 1 releases from the bridge's custody to the caller.
swap_asset_releasing(w, caller, asset_id, amount, imposed) ==
    LET calls == <<"erc20.transfer">>
        erc20_result == Erc20Trait_transfer(w, caller, amount)
    IN  IF ~erc20_result.ok
        THEN Aborted(w, IF erc20_result.err = "" THEN "contract call failed"
                        ELSE "erc20_result", calls)
        ELSE SwapLeg2(w, erc20_result.w, caller, asset_id, amount, imposed, calls)

\* swap_asset: leg 1 on the default reference through Erc20Trait, leg 2.
swap_asset(w, caller, asset_id, amount, imposed) ==
    LET calls == <<"erc20.transfer_from">>
        erc20_result == Erc20Trait_transfer_from(w, caller, Bridge, amount)
    IN  IF ~erc20_result.ok
        THEN Aborted(w, IF erc20_result.err = "" THEN "contract call failed"
                        ELSE "erc20_result", calls)
        ELSE SwapLeg2(w, erc20_result.w, caller, asset_id, amount, imposed, calls)

\* The extension-standard facade: each message returns the extension
\* method's result.
token_name(w, asset_id, imposed) ==
    Relay(w, ext_token_name(w, asset_id, imposed), "ext.token_name")
token_symbol(w, asset_id, imposed) ==
    Relay(w, ext_token_symbol(w, asset_id, imposed), "ext.token_symbol")
token_decimals(w, asset_id, imposed) ==
    Relay(w, ext_token_decimals(w, asset_id, imposed), "ext.token_decimals")
total_supply(w, asset_id, imposed) ==
    Relay(w, ext_total_supply(w, asset_id, imposed), "ext.total_supply")
balance_of(w, asset_id, owner, imposed) ==
    Relay(w, ext_balance_of(w, asset_id, owner, imposed), "ext.balance_of")
allowance(w, asset_id, owner, spender, imposed) ==
    Relay(w, ext_allowance(w, asset_id, owner, spender, imposed), "ext.allowance")
transfer(w, asset_id, to, value, imposed) ==
    Relay(w, ext_transfer(w, asset_id, to, value, imposed), "ext.transfer")
transfer_from(w, asset_id, from, to, value, imposed) ==
    Relay(w, ext_transfer_from(w, asset_id, from, to, value, imposed),
          "ext.transfer_from")
approve(w, asset_id, spender, value, imposed) ==
    Relay(w, ext_approve(w, asset_id, spender, value, imposed), "ext.approve")
increase_allowance(w, asset_id, spender, value, imposed) ==
    Relay(w, ext_increase_allowance(w, asset_id, spender, value, imposed),
          "ext.increase_allowance")
decrease_allowance(w, asset_id, spender, value, imposed) ==
    Relay(w, ext_decrease_allowance(w, asset_id, spender, value, imposed),
          "ext.decrease_allowance")

\* The contract-standard facade (Erc20Trait for the bridge) as messages.  A
\* query returns the token's answer; a mutator returns the token's Result
\* without asserting it; a reference that is no token contract traps the call.
Erc20Query(w, num, call) ==
    IF w.asset_pair \notin Tokens THEN Aborted(w, "contract call failed", <<call>>)
    ELSE Returned(w, Ok(num, <<>>), <<call>>)

\* The mutators return Result<(), Psp22Error>: whatever the token's reason to
\* refuse, the error value is the one variant Psp22Error has.
Erc20Mutation(w0, reply, call) ==
    IF reply.ok THEN Returned(reply.w, OkUnit, <<call>>)
    ELSE IF reply.err = "" THEN Aborted(w0, "contract call failed", <<call>>)
    ELSE Returned(w0, Err("TotalSupplyFailed"), <<call>>)

erc20_msg_total_supply(w) ==
    Erc20Query(w, IF w.asset_pair \in Tokens
                  THEN erc20_total_supply(w, w.asset_pair) ELSE 0,
               "erc20.total_supply")

erc20_msg_balance_of(w, owner) ==
    Erc20Query(w, IF w.asset_pair \in Tokens
                  THEN erc20_balance_of(w, w.asset_pair, owner) ELSE 0,
               "erc20.balance_of")

erc20_msg_allowance(w, owner, spender) ==
    Erc20Query(w, IF w.asset_pair \in Tokens
                  THEN erc20_allowance(w, w.asset_pair, owner, spender) ELSE 0,
               "erc20.allowance")

erc20_msg_transfer(w, to, value) ==
    Erc20Mutation(w, Erc20Trait_transfer(w, to, value), "erc20.transfer")

erc20_msg_approve(w, spender, value) ==
    Erc20Mutation(w, Erc20Trait_approve(w, spender, value), "erc20.approve")

erc20_msg_transfer_from(w, from, to, value) ==
    Erc20Mutation(w, Erc20Trait_transfer_from(w, from, to, value),
                  "erc20.transfer_from")

(* ------------------------------ history -------------------------------- *)

\* The arguments of a call.  Absent arguments are "" or 0.
Call(op, caller, asset_id, ref, from, to, value, imposed) ==
    [op |-> op, caller |-> caller, asset_id |-> asset_id, ref |-> ref,
     from |-> from, to |-> to, value |-> value, imposed |-> imposed]

SwapOps == {"swap_for_asset", "swap_asset"}

HostCalls == {"ext.token_name", "ext.token_symbol", "ext.token_decimals",
              "ext.total_supply", "ext.balance_of", "ext.allowance",
              "ext.transfer", "ext.transfer_from", "ext.approve",
              "ext.increase_allowance", "ext.decrease_allowance"}

Attempted(calls, call) == \E i \in 1 .. Len(calls) : calls[i] = call

HostCalled(calls) == \E i \in 1 .. Len(calls) : calls[i] \in HostCalls

\* What the call moved into the bridge's custody, over all token contracts.
Pulled(w, w2) ==
    SumOver([t \in Tokens |->
                w2.erc20_balances[t][Bridge] - w.erc20_balances[t][Bridge]], Tokens)

\* What the call released from the bridge's balance of the host asset.
Released(w, w2, asset_id) ==
    w.ext_balances[asset_id][Bridge] - w2.ext_balances[asset_id][Bridge]

\* The step of a call: the world becomes the call's world, the histories
\* record the call.  The host's own status is drawn only when it is called.
Apply(r, call) ==
    /\ call.imposed = 0 \/ HostCalled(r.calls)
    /\ asset_pairs' = r.w.asset_pairs
    /\ asset_pair' = r.w.asset_pair
    /\ erc20_balances' = r.w.erc20_balances
    /\ erc20_allowances' = r.w.erc20_allowances
    /\ ext_balances' = r.w.ext_balances
    /\ ext_allowances' = r.w.ext_allowances
    /\ swapped' =
         IF call.op \in SwapOps
         THEN [swapped EXCEPT ![call.asset_id] =
                  [pulled |-> @.pulled + Pulled(World, r.w),
                   released |-> @.released + Released(World, r.w, call.asset_id)]]
         ELSE swapped
    /\ registered' =
         IF call.op = "create_asset_pair"
         THEN [registered EXCEPT ![call.asset_id] = call.ref]
         ELSE registered
    /\ last' = [call |-> call, outcome |-> r.outcome, result |-> r.result,
                msg |-> r.msg, calls |-> r.calls, host_status |-> r.host_status]

(* ------------------------------ behaviour ------------------------------ *)

\* The addresses the bridge is constructed over: a token contract, or an
\* address that is no token contract (the constructor accepts any).
ConstructorArgs == {"tokA", NoContract}

\* The ledger when the bridge has been constructed: every user holds one
\* unit of each token, the bridge holds one unit of each host asset (funded
\* out of band), nothing is approved, the registry is empty.
Init ==
    /\ \E erc20_address \in ConstructorArgs :
          /\ asset_pairs = new(erc20_address).asset_pairs
          /\ asset_pair = new(erc20_address).asset_pair
          /\ last = [call |-> Call("new", "", 0, erc20_address, "", "", 0, 0),
                     outcome |-> "returned", result |-> NoResult, msg |-> "",
                     calls |-> <<>>, host_status |-> <<>>]
    /\ erc20_balances =
          [t \in Tokens |-> [a \in Accounts |-> IF a \in Users THEN 1 ELSE 0]]
    /\ erc20_allowances = [t \in Tokens |-> [p \in Accounts \X Accounts |-> 0]]
    /\ ext_balances =
          [i \in AssetIds |-> [a \in Accounts |-> IF a = Bridge THEN 1 ELSE 0]]
    /\ ext_allowances = [i \in AssetIds |-> [p \in Accounts \X Accounts |-> 0]]
    /\ swapped = [i \in AssetIds |-> [pulled |-> 0, released |-> 0]]
    /\ registered = [i \in AssetIds |-> None]

\* A user approves the bridge on a token contract (a call to the token).
TokenApprove ==
    \E owner \in Approvers, token \in Tokens, value \in Amounts :
        Apply(Returned(erc20_approve(World, token, owner, Bridge, value).w,
                       OkUnit, <<>>),
              Call("token.approve", owner, 0, token, "", "", value, 0))

CreateAssetPair ==
    \E caller \in Users, asset_id \in AssetIds, erc20_address \in Refs :
        Apply(create_asset_pair(World, asset_id, erc20_address),
              Call("create_asset_pair", caller, asset_id, erc20_address, "", "", 0, 0))

SwapForAsset ==
    \E caller \in Users, asset_id \in AssetIds, amount \in Amounts,
       imposed \in StatusCodes :
        Apply(swap_for_asset(World, caller, asset_id, amount, imposed),
              Call("swap_for_asset", caller, asset_id, "", "", "", amount, imposed))

SwapAsset ==
    \E caller \in Users, asset_id \in AssetIds, amount \in Amounts,
       imposed \in StatusCodes :
        Apply(swap_asset(World, caller, asset_id, amount, imposed),
              Call("swap_asset", caller, asset_id, "", "", "", amount, imposed))

Next ==
    \/ TokenApprove
    \/ CreateAssetPair
    \/ SwapForAsset
    \/ SwapAsset

Spec == Init /\ [][Next]_vars

(* ------------------- the extension-standard facade alone --------------- *)

\* The callers of the facade, the accounts named as owner or recipient in
\* its arguments, and those named as spender or source.
FacadeCallers == {"alice"}
FacadeParties == {Bridge, "bob"}
FacadeSpenders == {Bridge}

\* The facade is explored from a bridge constructed over one token contract.
InitFacade == Init /\ asset_pair = "tokA"

TokenName ==
    \E caller \in FacadeCallers, asset_id \in AssetIds, imposed \in StatusCodes :
        Apply(token_name(World, asset_id, imposed),
              Call("token_name", caller, asset_id, "", "", "", 0, imposed))

TokenSymbol ==
    \E caller \in FacadeCallers, asset_id \in AssetIds, imposed \in StatusCodes :
        Apply(token_symbol(World, asset_id, imposed),
              Call("token_symbol", caller, asset_id, "", "", "", 0, imposed))

TokenDecimals ==
    \E caller \in FacadeCallers, asset_id \in AssetIds, imposed \in StatusCodes :
        Apply(token_decimals(World, asset_id, imposed),
              Call("token_decimals", caller, asset_id, "", "", "", 0, imposed))

TotalSupply ==
    \E caller \in FacadeCallers, asset_id \in AssetIds, imposed \in StatusCodes :
        Apply(total_supply(World, asset_id, imposed),
              Call("total_supply", caller, asset_id, "", "", "", 0, imposed))

BalanceOf ==
    \E caller \in FacadeCallers, asset_id \in AssetIds, owner \in FacadeParties,
       imposed \in StatusCodes :
        Apply(balance_of(World, asset_id, owner, imposed),
              Call("balance_of", caller, asset_id, "", owner, "", 0, imposed))

Allowance ==
    \E caller \in FacadeCallers, asset_id \in AssetIds, owner \in FacadeParties,
       spender \in FacadeSpenders, imposed \in StatusCodes :
        Apply(allowance(World, asset_id, owner, spender, imposed),
              Call("allowance", caller, asset_id, "", owner, spender, 0, imposed))

Transfer ==
    \E caller \in FacadeCallers, asset_id \in AssetIds, to \in FacadeParties,
       value \in Amounts, imposed \in StatusCodes :
        Apply(transfer(World, asset_id, to, value, imposed),
              Call("transfer", caller, asset_id, "", "", to, value, imposed))

TransferFrom ==
    \E caller \in FacadeCallers, asset_id \in AssetIds, from \in FacadeSpenders,
       to \in FacadeParties, value \in Amounts, imposed \in StatusCodes :
        Apply(transfer_from(World, asset_id, from, to, value, imposed),
              Call("transfer_from", caller, asset_id, "", from, to, value, imposed))

Approve ==
    \E caller \in FacadeCallers, asset_id \in AssetIds, spender \in FacadeSpenders,
       value \in Amounts, imposed \in StatusCodes :
        Apply(approve(World, asset_id, spender, value, imposed),
              Call("approve", caller, asset_id, "", "", spender, value, imposed))

\* The message has no precondition.  Only the calls that would raise the
\* allowance above MaxAmount are left out (the bound of the exploration);
\* the calls the host refuses or answers with an unknown status are all there.
IncreaseAllowance ==
    \E caller \in FacadeCallers, asset_id \in AssetIds, spender \in FacadeSpenders,
       value \in Amounts, imposed \in StatusCodes :
        LET r == increase_allowance(World, asset_id, spender, value, imposed)
        IN  /\ r.w.ext_allowances[asset_id][<<HostOrigin, spender>>] <= MaxAmount
            /\ Apply(r, Call("increase_allowance", caller, asset_id, "", "",
                             spender, value, imposed))

DecreaseAllowance ==
    \E caller \in FacadeCallers, asset_id \in AssetIds, spender \in FacadeSpenders,
       value \in Amounts, imposed \in StatusCodes :
        Apply(decrease_allowance(World, asset_id, spender, value, imposed),
              Call("decrease_allowance", caller, asset_id, "", "", spender,
                   value, imposed))

NextFacade ==
    \/ TokenName
    \/ TokenSymbol
    \/ TokenDecimals
    \/ TotalSupply
    \/ BalanceOf
    \/ Allowance
    \/ Transfer
    \/ TransferFrom
    \/ Approve
    \/ IncreaseAllowance
    \/ DecreaseAllowance

SpecFacade == InitFacade /\ [][NextFacade]_vars

(* ------------------- the contract-standard facade ---------------------- *)

\* The accounts named as recipient, owner or spender in the arguments of the
\* contract-standard facade.
Erc20Parties == {Bridge, "bob"}

Erc20TotalSupply ==
    \E caller \in Users :
        Apply(erc20_msg_total_supply(World),
              Call("Erc20Trait.total_supply", caller, 0, "", "", "", 0, 0))

Erc20BalanceOf ==
    \E caller \in Users, owner \in Erc20Parties :
        Apply(erc20_msg_balance_of(World, owner),
              Call("Erc20Trait.balance_of", caller, 0, "", owner, "", 0, 0))

Erc20Allowance ==
    \E caller \in Users, owner \in Approvers, spender \in {Bridge} :
        Apply(erc20_msg_allowance(World, owner, spender),
              Call("Erc20Trait.allowance", caller, 0, "", owner, spender, 0, 0))

Erc20Transfer ==
    \E caller \in Users, to \in Erc20Parties, value \in Amounts :
        Apply(erc20_msg_transfer(World, to, value),
              Call("Erc20Trait.transfer", caller, 0, "", "", to, value, 0))

Erc20Approve ==
    \E caller \in Users, spender \in Erc20Parties, value \in Amounts :
        Apply(erc20_msg_approve(World, spender, value),
              Call("Erc20Trait.approve", caller, 0, "", "", spender, value, 0))

Erc20TransferFrom ==
    \E caller \in Users, from \in Approvers, to \in Erc20Parties,
       value \in Amounts :
        Apply(erc20_msg_transfer_from(World, from, to, value),
              Call("Erc20Trait.transfer_from", caller, 0, "", from, to, value, 0))

NextErc20 ==
    \/ TokenApprove
    \/ SwapAsset
    \/ Erc20TotalSupply
    \/ Erc20BalanceOf
    \/ Erc20Allowance
    \/ Erc20Transfer
    \/ Erc20Approve
    \/ Erc20TransferFrom

SpecErc20 == Init /\ [][NextErc20]_vars

(* ------------------------------ properties ---------------------------- *)

IsSwap(c) == c.op \in SwapOps

\* The reference a swap resolves in the world before the call: the registry
\* entry for swap_for_asset (None when there is none), the default reference
\* for swap_asset.
SwapToken(c) ==
    IF c.op = "swap_for_asset" THEN asset_pairs[c.asset_id] ELSE asset_pair

\* The caller has approved the bridge for the amount on the token.
CallerApproved(c, tok) ==
    /\ tok \in Tokens
    /\ erc20_allowances[tok][<<c.caller, Bridge>>] >= c.value

\* The caller holds the amount on the token.
CallerHolds(c, tok) ==
    /\ tok \in Tokens
    /\ erc20_balances[tok][c.caller] >= c.value

\* The bridge holds the amount of the host asset.
BridgeFunded(c) == ext_balances[c.asset_id][Bridge] >= c.value

\* The host has no reason of its own to refuse the call: it answers a
\* transfer the funds cover with status 0.
HostServes(c) == c.imposed = 0

\* The step completed the swap c: both legs moved exactly c.value.
SwapCompleted(c, tok) ==
    /\ last'.outcome = "returned"
    /\ erc20_balances'[tok][c.caller] = erc20_balances[tok][c.caller] - c.value
    /\ erc20_balances'[tok][Bridge] = erc20_balances[tok][Bridge] + c.value
    /\ ext_balances'[c.asset_id][c.caller] =
           ext_balances[c.asset_id][c.caller] + c.value
    /\ ext_balances'[c.asset_id][Bridge] =
           ext_balances[c.asset_id][Bridge] - c.value

\* Leg 1 (transfer_from on the resolved reference) fails in the world before
\* the call.
Leg1Fails(c, tok) ==
    /\ tok # None
    /\ ~ (CallerApproved(c, tok) /\ CallerHolds(c, tok))

\* Nothing the ledger stores differs after the step.
LedgerUnchanged == World' = World /\ swapped' = swapped

\* C1 as claimed, for the calls the host serves: every swap whose caller has
\* approved the bridge for the amount, while the bridge holds the amount of
\* the host asset, completes and moves exactly the amount on both legs.  (The
\* claim names no condition on the host; it fails already where the host
\* answers the covered transfer with status 0.)
C1_ApprovedSwapCompletes ==
    [][LET c == last'.call
           tok == SwapToken(c)
       IN  (/\ IsSwap(c)
            /\ CallerApproved(c, tok)
            /\ BridgeFunded(c)
            /\ HostServes(c))
               => SwapCompleted(c, tok)]_vars

\* C1 amended: every swap whose caller has approved the bridge for the amount
\* and holds the amount on the token, while the bridge holds the amount of the
\* host asset and the host answers the leg 2 transfer with status 0, completes
\* and moves exactly the amount on both legs.
C1_ApprovedFundedSwapCompletes ==
    [][LET c == last'.call
           tok == SwapToken(c)
       IN  (/\ IsSwap(c)
            /\ CallerApproved(c, tok)
            /\ CallerHolds(c, tok)
            /\ BridgeFunded(c)
            /\ HostServes(c))
               => /\ SwapCompleted(c, tok)
                  /\ last'.host_status = <<0>>]_vars

\* A swap through the registry has completed and moved a positive amount.
C1_Witness ==
    /\ last.call.op = "swap_for_asset"
    /\ last.outcome = "returned"
    /\ last.call.value > 0
    /\ ext_balances[last.call.asset_id][last.call.caller] > 0

\* C2: leg 2 is attempted only after leg 1 has succeeded; when leg 1 fails
\* the swap aborts, no extension transfer is attempted, and no balance,
\* allowance or registry entry changes.
C2_Leg1FailureAborts ==
    [][LET c == last'.call
           tok == SwapToken(c)
       IN  IsSwap(c) =>
             /\ Attempted(last'.calls, "ext.transfer") =>
                   /\ last'.calls = <<"erc20.transfer_from", "ext.transfer">>
                   /\ CallerApproved(c, tok)
                   /\ CallerHolds(c, tok)
             /\ Leg1Fails(c, tok) =>
                   /\ last'.outcome = "aborted"
                   /\ ~ Attempted(last'.calls, "ext.transfer")
                   /\ LedgerUnchanged]_vars

\* A swap has aborted on leg 1 for lack of allowance, by a caller who holds
\* the amount.
C2_Witness ==
    /\ IsSwap(last.call)
    /\ last.outcome = "aborted"
    /\ last.msg = "erc20_result"
    /\ last.calls = <<"erc20.transfer_from">>
    /\ last.call.value > 0
    /\ last.call.caller \notin Approvers

\* C3: when leg 1 succeeds and the host answers leg 2 with a status other
\* than 0, the swap aborts and the token balances and allowances are those
\* before the call.
C3_Leg2FailureUndoesLeg1 ==
    [][LET c == last'.call
       IN  (/\ IsSwap(c)
            /\ Attempted(last'.calls, "ext.transfer")
            /\ last'.host_status # <<0>>)
               => /\ last'.outcome = "aborted"
                  /\ erc20_balances' = erc20_balances
                  /\ erc20_allowances' = erc20_allowances
                  /\ ext_balances' = ext_balances]_vars

\* A swap has aborted on leg 2 because the bridge did not hold the amount of
\* the host asset, after a leg 1 that the caller had approved and funded.
C3_Witness ==
    /\ IsSwap(last.call)
    /\ last.outcome = "aborted"
    /\ last.msg = "ext_result"
    /\ last.host_status = <<1>>
    /\ last.call.imposed = 0
    /\ last.call.value > 0
    /\ ext_balances[last.call.asset_id][Bridge] < last.call.value

\* C4: in every reachable state, for each asset id, what the swap calls
\* naming it pulled into the bridge equals what they released of the asset.
C4_LegsNeverDiverge ==
    \A i \in AssetIds : swapped[i].pulled = swapped[i].released

\* Swaps have moved value, and the last swap aborted after its leg 1.
C4_Witness ==
    /\ \E i \in AssetIds : swapped[i].pulled > 0
    /\ IsSwap(last.call)
    /\ last.outcome = "aborted"
    /\ Attempted(last.calls, "ext.transfer")

\* C5: swap_for_asset on an asset id without registry entry aborts with
\* "Asset pair not found!" before any transfer is attempted and changes
\* nothing.
C5_UnregisteredAborts ==
    [][LET c == last'.call
       IN  (c.op = "swap_for_asset" /\ asset_pairs[c.asset_id] = None)
               => /\ last'.outcome = "aborted"
                  /\ last'.msg = "Asset pair not found!"
                  /\ last'.calls = <<>>
                  /\ LedgerUnchanged]_vars

\* swap_for_asset has aborted on an unregistered id although the caller had
\* approved the bridge on the default token and the other id is registered.
C5_Witness ==
    /\ last.call.op = "swap_for_asset"
    /\ last.msg = "Asset pair not found!"
    /\ last.call.value > 0
    /\ asset_pairs[last.call.asset_id] = None
    /\ \E i \in AssetIds : asset_pairs[i] # None
    /\ asset_pair \in Tokens
    /\ erc20_allowances[asset_pair][<<last.call.caller, Bridge>>] >= last.call.value

\* C6: the registry entry of every asset id is the reference passed to the
\* most recent create_asset_pair for that id (None before the first), and a
\* completed swap_for_asset has pulled from that reference.
C6_LastWriteWins ==
    [][/\ asset_pairs' = registered'
       /\ LET c == last'.call
              tok == registered[c.asset_id]
          IN  (c.op = "swap_for_asset" /\ last'.outcome = "returned")
                  => /\ tok \in Tokens
                     /\ erc20_balances'[tok][Bridge] =
                            erc20_balances[tok][Bridge] + c.value
                     /\ \A t \in Tokens \ {tok} :
                            erc20_balances'[t] = erc20_balances[t]]_vars

\* An id under which a swap had pulled from one token has been registered
\* again, to the other token, and resolves to the new reference.
C6_Witness ==
    /\ last.call.op = "create_asset_pair"
    /\ last.call.ref = "tokB"
    /\ asset_pairs[last.call.asset_id] = "tokB"
    /\ asset_pair = NoContract
    /\ swapped[last.call.asset_id].pulled > 0
    /\ erc20_balances["tokB"][Bridge] = 0

\* What swap_asset does in world w for the call c: outcome, panic message,
\* resulting balances and allowances.
SwapAssetEffect(w, c) ==
    LET r == swap_asset(w, c.caller, c.asset_id, c.value, c.imposed)
    IN  <<r.outcome, r.msg, r.w.erc20_balances, r.w.erc20_allowances,
          r.w.ext_balances>>

\* The registries that differ from the current one in the entry of asset_id
\* (no entry, the default contract, another contract, no contract), or hold
\* the same entry for every id.
OtherRegistries(asset_id) ==
    {[asset_pairs EXCEPT ![asset_id] = x] : x \in Refs \cup {None}}
        \cup {[i \in AssetIds |-> x] : x \in Tokens}

\* C7: swap_asset has the same outcome and the same resulting balances and
\* allowances whatever the registry holds, and a completed swap_asset has
\* pulled from the default reference, which it leaves as constructed.
C7_SwapAssetIgnoresRegistry ==
    [][LET c == last'.call
       IN  c.op = "swap_asset" =>
             /\ \A reg \in OtherRegistries(c.asset_id) :
                   SwapAssetEffect([World EXCEPT !.asset_pairs = reg], c)
                       = <<last'.outcome, last'.msg, erc20_balances',
                           erc20_allowances', ext_balances'>>
             /\ last'.outcome = "returned" =>
                   /\ asset_pair \in Tokens
                   /\ erc20_balances'[asset_pair][Bridge] =
                          erc20_balances[asset_pair][Bridge] + c.value
                   /\ \A t \in Tokens \ {asset_pair} :
                          erc20_balances'[t] = erc20_balances[t]
             /\ asset_pair' = asset_pair
             /\ asset_pairs' = asset_pairs]_vars

\* swap_asset has completed for an id the registry maps to a token other than
\* the default one.
C7_Witness ==
    /\ last.call.op = "swap_asset"
    /\ last.outcome = "returned"
    /\ last.call.value > 0
    /\ asset_pairs[last.call.asset_id] \in Tokens \ {asset_pair}

\* C10: create_asset_pair returns for every caller and every reference, makes
\* no call to a token contract or to the host, sets the entry of asset_id to
\* the reference and changes nothing else.
C10_CreateAssetPairFrame ==
    [][LET c == last'.call
       IN  c.op = "create_asset_pair" =>
             /\ last'.outcome = "returned"
             /\ last'.calls = <<>>
             /\ asset_pairs' = [asset_pairs EXCEPT ![c.asset_id] = c.ref]
             /\ asset_pair' = asset_pair
             /\ erc20_balances' = erc20_balances
             /\ erc20_allowances' = erc20_allowances
             /\ ext_balances' = ext_balances
             /\ ext_allowances' = ext_allowances
             /\ swapped' = swapped]_vars

\* A caller who approved nothing has registered an address that is no token
\* contract, while the other id stays registered to a token.
C10_Witness ==
    /\ last.call.op = "create_asset_pair"
    /\ last.call.ref = NoContract
    /\ last.call.caller \notin Approvers
    /\ last.outcome = "returned"
    /\ asset_pairs[last.call.asset_id] = NoContract
    /\ \E i \in AssetIds \ {last.call.asset_id} : asset_pairs[i] \in Tokens

FacadeOps == {"token_name", "token_symbol", "token_decimals", "total_supply",
              "balance_of", "allowance", "transfer", "transfer_from", "approve",
              "increase_allowance", "decrease_allowance"}

\* C8: when the host answers a facade call with status 0 the call returns Ok,
\* with status 1 it returns the error TotalSupplyFailed as a value, and with
\* any other status the call aborts and reports neither a value nor an error.
C8_StatusMapping ==
    (last.call.op \in FacadeOps /\ last.host_status # <<>>) =>
        LET status == last.host_status[1]
        IN  /\ status = 0 => last.outcome = "returned" /\ last.result.kind = "Ok"
            /\ status = 1 => /\ last.outcome = "returned"
                             /\ last.result = Err("TotalSupplyFailed")
            /\ status \notin {0, 1} =>
                             /\ last.outcome = "aborted"
                             /\ last.msg = "encountered unknown status code"
                             /\ last.result = NoResult

\* A facade call has aborted on a status code that is neither 0 nor 1.
C8_Witness ==
    /\ last.call.op \in FacadeOps
    /\ last.host_status # <<>>
    /\ last.host_status[1] > 1
    /\ last.outcome = "aborted"

\* The extension method of the same name as the facade call c, with the
\* arguments of c, in world w.
ExtensionCall(c, w) ==
    CASE c.op = "token_name" -> ext_token_name(w, c.asset_id, c.imposed)
      [] c.op = "token_symbol" -> ext_token_symbol(w, c.asset_id, c.imposed)
      [] c.op = "token_decimals" -> ext_token_decimals(w, c.asset_id, c.imposed)
      [] c.op = "total_supply" -> ext_total_supply(w, c.asset_id, c.imposed)
      [] c.op = "balance_of" -> ext_balance_of(w, c.asset_id, c.from, c.imposed)
      [] c.op = "allowance" ->
             ext_allowance(w, c.asset_id, c.from, c.to, c.imposed)
      [] c.op = "transfer" ->
             ext_transfer(w, c.asset_id, c.to, c.value, c.imposed)
      [] c.op = "transfer_from" ->
             ext_transfer_from(w, c.asset_id, c.from, c.to, c.value, c.imposed)
      [] c.op = "approve" ->
             ext_approve(w, c.asset_id, c.to, c.value, c.imposed)
      [] c.op = "increase_allowance" ->
             ext_increase_allowance(w, c.asset_id, c.to, c.value, c.imposed)
      [] c.op = "decrease_allowance" ->
             ext_decrease_allowance(w, c.asset_id, c.to, c.value, c.imposed)

\* The facade message c in world w.
FacadeCall(c, w) ==
    CASE c.op = "token_name" -> token_name(w, c.asset_id, c.imposed)
      [] c.op = "token_symbol" -> token_symbol(w, c.asset_id, c.imposed)
      [] c.op = "token_decimals" -> token_decimals(w, c.asset_id, c.imposed)
      [] c.op = "total_supply" -> total_supply(w, c.asset_id, c.imposed)
      [] c.op = "balance_of" -> balance_of(w, c.asset_id, c.from, c.imposed)
      [] c.op = "allowance" -> allowance(w, c.asset_id, c.from, c.to, c.imposed)
      [] c.op = "transfer" -> transfer(w, c.asset_id, c.to, c.value, c.imposed)
      [] c.op = "transfer_from" ->
             transfer_from(w, c.asset_id, c.from, c.to, c.value, c.imposed)
      [] c.op = "approve" -> approve(w, c.asset_id, c.to, c.value, c.imposed)
      [] c.op = "increase_allowance" ->
             increase_allowance(w, c.asset_id, c.to, c.value, c.imposed)
      [] c.op = "decrease_allowance" ->
             decrease_allowance(w, c.asset_id, c.to, c.value, c.imposed)

(* ------------------- every entry point of the bridge ------------------- *)

Erc20Ops == {"Erc20Trait.total_supply", "Erc20Trait.balance_of",
             "Erc20Trait.allowance", "Erc20Trait.transfer",
             "Erc20Trait.approve", "Erc20Trait.transfer_from"}

\* The contract-standard facade message c in world w.
Erc20Call(c, w) ==
    CASE c.op = "Erc20Trait.total_supply" -> erc20_msg_total_supply(w)
      [] c.op = "Erc20Trait.balance_of" -> erc20_msg_balance_of(w, c.from)
      [] c.op = "Erc20Trait.allowance" -> erc20_msg_allowance(w, c.from, c.to)
      [] c.op = "Erc20Trait.transfer" -> erc20_msg_transfer(w, c.to, c.value)
      [] c.op = "Erc20Trait.approve" -> erc20_msg_approve(w, c.to, c.value)
      [] c.op = "Erc20Trait.transfer_from" ->
             erc20_msg_transfer_from(w, c.from, c.to, c.value)

\* The message of the bridge that the call c names, in world w.
EntryPoint(c, w) ==
    CASE c.op = "create_asset_pair" -> create_asset_pair(w, c.asset_id, c.ref)
      [] c.op = "swap_for_asset" ->
             swap_for_asset(w, c.caller, c.asset_id, c.value, c.imposed)
      [] c.op = "swap_asset" ->
             swap_asset(w, c.caller, c.asset_id, c.value, c.imposed)
      [] c.op \in FacadeOps -> FacadeCall(c, w)
      [] c.op \in Erc20Ops -> Erc20Call(c, w)

\* All entry points together are explored for the calls of one account that
\* name one asset and one token contract, with one other account as the
\* second party.
OneCaller == "alice"
OtherParty == "bob"
OneAsset == 1
OneRefs == {"tokA", NoContract}

\* The caller approves the bridge on the token contract.
AnyTokenApprove ==
    \E value \in Amounts :
        Apply(Returned(erc20_approve(World, "tokA", OneCaller, Bridge, value).w,
                       OkUnit, <<>>),
              Call("token.approve", OneCaller, 0, "tokA", "", "", value, 0))

AnyCreateAssetPair ==
    \E erc20_address \in OneRefs :
        LET c == Call("create_asset_pair", OneCaller, OneAsset, erc20_address, "", "", 0, 0)
        IN  Apply(EntryPoint(c, World), c)

AnySwapForAsset ==
    \E amount \in Amounts, imposed \in StatusCodes :
        LET c == Call("swap_for_asset", OneCaller, OneAsset, "", "", "", amount, imposed)
        IN  Apply(EntryPoint(c, World), c)

AnySwapAsset ==
    \E amount \in Amounts, imposed \in StatusCodes :
        LET c == Call("swap_asset", OneCaller, OneAsset, "", "", "", amount, imposed)
        IN  Apply(EntryPoint(c, World), c)

AnyTokenName ==
    \E imposed \in StatusCodes :
        LET c == Call("token_name", OneCaller, OneAsset, "", "", "", 0, imposed)
        IN  Apply(EntryPoint(c, World), c)

AnyTokenSymbol ==
    \E imposed \in StatusCodes :
        LET c == Call("token_symbol", OneCaller, OneAsset, "", "", "", 0, imposed)
        IN  Apply(EntryPoint(c, World), c)

AnyTokenDecimals ==
    \E imposed \in StatusCodes :
        LET c == Call("token_decimals", OneCaller, OneAsset, "", "", "", 0, imposed)
        IN  Apply(EntryPoint(c, World), c)

AnyTotalSupply ==
    \E imposed \in StatusCodes :
        LET c == Call("total_supply", OneCaller, OneAsset, "", "", "", 0, imposed)
        IN  Apply(EntryPoint(c, World), c)

AnyBalanceOf ==
    \E imposed \in StatusCodes :
        LET c == Call("balance_of", OneCaller, OneAsset, "", OneCaller, "", 0, imposed)
        IN  Apply(EntryPoint(c, World), c)

AnyAllowance ==
    \E imposed \in StatusCodes :
        LET c == Call("allowance", OneCaller, OneAsset, "", Bridge, Bridge, 0, imposed)
        IN  Apply(EntryPoint(c, World), c)

AnyTransfer ==
    \E value \in Amounts, imposed \in StatusCodes :
        LET c == Call("transfer", OneCaller, OneAsset, "", "", OtherParty, value, imposed)
        IN  Apply(EntryPoint(c, World), c)

AnyTransferFrom ==
    \E value \in Amounts, imposed \in StatusCodes :
        LET c == Call("transfer_from", OneCaller, OneAsset, "", OneCaller, Bridge,
                      value, imposed)
        IN  Apply(EntryPoint(c, World), c)

AnyApprove ==
    \E value \in Amounts, imposed \in StatusCodes :
        LET c == Call("approve", OneCaller, OneAsset, "", "", Bridge, value, imposed)
        IN  Apply(EntryPoint(c, World), c)

\* Only the calls that would raise the allowance above MaxAmount are left out.
AnyIncreaseAllowance ==
    \E value \in Amounts, imposed \in StatusCodes :
        LET c == Call("increase_allowance", OneCaller, OneAsset, "", "", Bridge, value, imposed)
            r == EntryPoint(c, World)
        IN  /\ r.w.ext_allowances[OneAsset][<<HostOrigin, Bridge>>] <= MaxAmount
            /\ Apply(r, c)

AnyDecreaseAllowance ==
    \E value \in Amounts, imposed \in StatusCodes :
        LET c == Call("decrease_allowance", OneCaller, OneAsset, "", "", Bridge, value, imposed)
        IN  Apply(EntryPoint(c, World), c)

AnyErc20TotalSupply ==
    LET c == Call("Erc20Trait.total_supply", OneCaller, 0, "", "", "", 0, 0)
    IN  Apply(EntryPoint(c, World), c)

AnyErc20BalanceOf ==
    LET c == Call("Erc20Trait.balance_of", OneCaller, 0, "", Bridge, "", 0, 0)
    IN  Apply(EntryPoint(c, World), c)

AnyErc20Allowance ==
    LET c == Call("Erc20Trait.allowance", OneCaller, 0, "", OneCaller, Bridge, 0, 0)
    IN  Apply(EntryPoint(c, World), c)

AnyErc20Transfer ==
    \E value \in Amounts :
        LET c == Call("Erc20Trait.transfer", OneCaller, 0, "", "", OneCaller, value, 0)
        IN  Apply(EntryPoint(c, World), c)

AnyErc20Approve ==
    \E value \in Amounts :
        LET c == Call("Erc20Trait.approve", OneCaller, 0, "", "", OneCaller, value, 0)
        IN  Apply(EntryPoint(c, World), c)

AnyErc20TransferFrom ==
    \E value \in Amounts :
        LET c == Call("Erc20Trait.transfer_from", OneCaller, 0, "", OneCaller,
                      Bridge, value, 0)
        IN  Apply(EntryPoint(c, World), c)

NextAll ==
    \/ AnyTokenApprove
    \/ AnyCreateAssetPair
    \/ AnySwapForAsset
    \/ AnySwapAsset
    \/ AnyTokenName
    \/ AnyTokenSymbol
    \/ AnyTokenDecimals
    \/ AnyTotalSupply
    \/ AnyBalanceOf
    \/ AnyAllowance
    \/ AnyTransfer
    \/ AnyTransferFrom
    \/ AnyApprove
    \/ AnyIncreaseAllowance
    \/ AnyDecreaseAllowance
    \/ AnyErc20TotalSupply
    \/ AnyErc20BalanceOf
    \/ AnyErc20Allowance
    \/ AnyErc20Transfer
    \/ AnyErc20Approve
    \/ AnyErc20TransferFrom

SpecAll == Init /\ [][NextAll]_vars

\* What the facade message c does in world w, apart from the storage.
FacadeEffect(c, w) ==
    LET r == FacadeCall(c, w)
    IN  <<r.outcome, r.result, r.w.ext_balances, r.w.ext_allowances>>

\* Worlds that differ from the current one in the bridge's storage only.
OtherStorages ==
    {[World EXCEPT !.asset_pairs = [i \in AssetIds |-> x], !.asset_pair = x] :
        x \in {NoContract}}

\* C9: a facade call returns exactly what the extension method of the same
\* name returns for the same arguments and keeps exactly its writes; a
\* status-1 failure is returned as an Err value; the call aborts only when
\* the extension method panics; the registry and the default reference are
\* neither changed nor read.
C9_FacadeRelays ==
    [][LET c == last'.call
           e == ExtensionCall(c, World)
       IN  c.op \in FacadeOps =>
             /\ last'.calls = <<"ext." \o c.op>>
             /\ e.kind # "Panic" =>
                   /\ last'.outcome = "returned"
                   /\ last'.result = e.result
                   /\ World' = e.w
             /\ e.kind = "Panic" =>
                   /\ last'.outcome = "aborted"
                   /\ World' = World
             /\ last'.host_status = <<1>> =>
                   /\ last'.outcome = "returned"
                   /\ last'.result.kind = "Err"
             /\ asset_pairs' = asset_pairs
             /\ asset_pair' = asset_pair
             /\ \A w \in OtherStorages :
                   FacadeEffect(c, w) = <<last'.outcome, last'.result,
                                          ext_balances', ext_allowances'>>]_vars

\* A facade mutator has returned the error value for a transfer the bridge's
\* asset balance did not cover, and the caller went on.
C9_Witness ==
    /\ last.call.op = "transfer"
    /\ last.call.imposed = 0
    /\ last.host_status = <<1>>
    /\ last.outcome = "returned"
    /\ last.result = Err("TotalSupplyFailed")
    /\ ext_balances[last.call.asset_id][Bridge] < last.call.value
    /\ \E i \in AssetIds : ext_allowances[i][<<Bridge, Bridge>>] > 0

\* The step takes asset from the caller on the extension standard and
\* releases tokens from the bridge's custody to the caller.
ReverseSwap(c) ==
    /\ \E i \in AssetIds : ext_balances'[i][c.caller] < ext_balances[i][c.caller]
    /\ \E t \in Tokens :
          /\ erc20_balances'[t][Bridge] < erc20_balances[t][Bridge]
          /\ erc20_balances'[t][c.caller] > erc20_balances[t][c.caller]

\* The step moves no value against the direction of a swap: the bridge's
\* custody does not shrink, the caller's tokens do not grow, the bridge's
\* asset balance does not grow, the caller's asset balance does not shrink.
ForwardOnly(c) ==
    /\ \A t \in Tokens :
          /\ erc20_balances'[t][Bridge] >= erc20_balances[t][Bridge]
          /\ erc20_balances'[t][c.caller] <= erc20_balances[t][c.caller]
    /\ \A i \in AssetIds :
          /\ ext_balances'[i][Bridge] <= ext_balances[i][Bridge]
          /\ ext_balances'[i][c.caller] >= ext_balances[i][c.caller]

\* C11: no call of any entry point takes asset from the caller on the
\* extension standard and releases tokens from the bridge's custody to the
\* caller, and the swaps move value only from the token leg to the asset leg.
C11_NoReverseSwap ==
    [][LET c == last'.call
       IN  /\ ~ ReverseSwap(c)
           /\ IsSwap(c) => ForwardOnly(c)]_vars

\* The caller, holding asset received in a swap, has been paid tokens out of
\* the bridge's custody by the contract-standard transfer: the nearest call
\* to a reverse swap, and it took no asset from the caller.
C11_Witness ==
    /\ last.call.op = "Erc20Trait.transfer"
    /\ last.call.to = last.call.caller
    /\ last.call.value > 0
    /\ last.result = OkUnit
    /\ last.outcome = "returned"
    /\ \E i \in AssetIds : /\ swapped[i].released > 0
                            /\ ext_balances[i][last.call.caller] > 0

\* C12 as claimed: a completed contract-standard transfer moves the value
\* from the account of the caller of the bridge to `to`, and a completed
\* approve sets the allowance of `spender` over the caller's account.
C12_FacadeActsForCaller ==
    [][LET c == last'.call
           tok == asset_pair
       IN  (last'.outcome = "returned" /\ last'.result = OkUnit) =>
             /\ c.op = "Erc20Trait.transfer" =>
                   erc20_balances'[tok] =
                       Move(erc20_balances[tok], c.caller, c.to, c.value)
             /\ c.op = "Erc20Trait.approve" =>
                   erc20_allowances'[tok][<<c.caller, c.to>>] = c.value]_vars

\* C13 as claimed: a swap attempts a transfer only when the registry holds
\* an entry for asset_id.
C13_TransfersNeedLookup ==
    [][LET c == last'.call
       IN  (IsSwap(c) /\ last'.calls # <<>>) => asset_pairs[c.asset_id] # None]_vars

\* C13 amended: swap_for_asset attempts a transfer only when the registry
\* holds an entry for asset_id; swap_asset makes no lookup and attempts leg 1
\* whether or not asset_id is registered.
C13_SwapForAssetNeedsLookup ==
    [][LET c == last'.call
       IN  /\ (c.op = "swap_for_asset" /\ last'.calls # <<>>)
                 => asset_pairs[c.asset_id] # None
           /\ c.op = "swap_asset"
                 => /\ last'.calls # <<>>
                    /\ last'.calls[1] = "erc20.transfer_from"]_vars

\* swap_asset has completed both legs for an id without registry entry,
\* while swap_for_asset under that id aborts before any transfer.
C13_Witness ==
    /\ last.call.op = "swap_asset"
    /\ last.outcome = "returned"
    /\ last.call.value > 0
    /\ asset_pairs[last.call.asset_id] = None
    /\ swap_for_asset(World, last.call.caller, last.call.asset_id, 0, 0).calls = <<>>

\* C14 as claimed: a completed facade transfer takes the value from the
\* caller of the bridge and never reduces the bridge's own asset balance.
C14_FacadeTransferSparesBridge ==
    [][LET c == last'.call
       IN  (c.op = "transfer" /\ last'.outcome = "returned"
              /\ last'.result.kind = "Ok")
               => ext_balances'[c.asset_id][Bridge]
                      >= ext_balances[c.asset_id][Bridge]]_vars

\* What a completed swap_for_asset credits to the bridge's custody on token t.
RegistryCredit(c, t) ==
    IF /\ c.op = "swap_for_asset"
       /\ last'.outcome = "returned"
       /\ asset_pairs[c.asset_id] = t
    THEN c.value ELSE 0

\* What a completed swap_asset credits to the bridge's custody on token t.
DefaultCredit(c, t) ==
    IF /\ c.op = "swap_asset"
       /\ last'.outcome = "returned"
       /\ asset_pair = t
    THEN c.value ELSE 0

\* create_asset_pair accepts every reference, also one another id maps to,
\* and leaves the other entries as they are.
AliasAccepted(c) ==
    c.op = "create_asset_pair" =>
        /\ last'.outcome = "returned"
        /\ asset_pairs' = [asset_pairs EXCEPT ![c.asset_id] = c.ref]

\* C15 as claimed, for a token that every id maps to: registration under a
\* second id is accepted, and over registrations and swaps the bridge's
\* custody on the token grows exactly by the amounts of the completed
\* swap_for_asset calls under the ids mapped to it.
C15_CustodyIsRegistrySwaps ==
    [][LET c == last'.call
       IN  /\ AliasAccepted(c)
           /\ \A t \in Tokens :
                 (\A i \in AssetIds : asset_pairs[i] = t) =>
                     erc20_balances'[t][Bridge] - erc20_balances[t][Bridge]
                         = RegistryCredit(c, t)]_vars

\* C15 amended: registration under a second id is accepted, and over
\* registrations and swaps the bridge's custody on every token grows exactly
\* by the amounts of the completed swap_for_asset calls under ids mapped to
\* it plus, on the default token, those of the completed swap_asset calls.
C15_CustodyIsAllSwaps ==
    [][LET c == last'.call
       IN  /\ AliasAccepted(c)
           /\ \A t \in Tokens :
                 erc20_balances'[t][Bridge] - erc20_balances[t][Bridge]
                     = RegistryCredit(c, t) + DefaultCredit(c, t)]_vars

\* Both ids map to one token, swap_for_asset has completed under the id
\* registered second, and the bridge's custody on the token is what the
\* swaps under the two ids pulled.
C15_Witness ==
    /\ last.call.op = "swap_for_asset"
    /\ last.outcome = "returned"
    /\ last.call.value > 0
    /\ asset_pair \notin Tokens
    /\ \E t \in Tokens :
          /\ \A i \in AssetIds : asset_pairs[i] = t
          /\ erc20_balances[t][Bridge] = swapped[1].pulled + swapped[2].pulled
          /\ erc20_balances[t][Bridge] > 0

\* C16 as claimed: no step decreases the bridge's balance on the default
\* token or raises an allowance over it, and the balance changes only in
\* swaps, by the swapped amount.
C16_CustodyPreserved ==
    [][LET c == last'.call
           tok == asset_pair
       IN  tok \in Tokens =>
             /\ erc20_balances'[tok][Bridge] >= erc20_balances[tok][Bridge]
             /\ \A a \in Accounts :
                   erc20_allowances'[tok][<<Bridge, a>>]
                       <= erc20_allowances[tok][<<Bridge, a>>]
             /\ erc20_balances'[tok][Bridge] # erc20_balances[tok][Bridge]
                   => /\ IsSwap(c)
                      /\ erc20_balances'[tok][Bridge] =
                             erc20_balances[tok][Bridge] + c.value]_vars

\* C17: after construction the default reference is the constructor's
\* argument and the registry is empty, and no call of any entry point,
\* completed or aborted, changes the default reference.
C17_DefaultFixedAtConstruction ==
    [][/\ last.call.op = "new" =>
             /\ asset_pair = last.call.ref
             /\ \A i \in AssetIds : asset_pairs[i] = None
       /\ asset_pair' = asset_pair]_vars

\* A reference other than the default one has been registered after swaps
\* moved value, and the default reference is a token contract still.
C17_Witness ==
    /\ last.call.op = "create_asset_pair"
    /\ last.call.ref # asset_pair
    /\ asset_pairs[last.call.asset_id] = last.call.ref
    /\ asset_pair \in Tokens
    /\ \E i \in AssetIds : swapped[i].pulled > 0

\* The other swap entry point, for the same caller and arguments.
OtherSwap(c, w) ==
    IF c.op = "swap_for_asset"
    THEN swap_asset(w, c.caller, c.asset_id, c.value, c.imposed)
    ELSE swap_for_asset(w, c.caller, c.asset_id, c.value, c.imposed)

\* C18: when the registry maps asset_id to the default reference, the swap
\* just made and the other swap entry point, called in the same state by the
\* same caller, have the same outcome and leave the same balances,
\* allowances and registry.
C18_SwapsAgree ==
    [][LET c == last'.call
       IN  (IsSwap(c) /\ asset_pairs[c.asset_id] = asset_pair) =>
             LET other == OtherSwap(c, World)
             IN  /\ other.outcome = last'.outcome
                 /\ other.w = World']_vars

\* swap_asset has completed for an id the registry maps to the default token.
C18_Witness ==
    /\ last.call.op = "swap_asset"
    /\ last.outcome = "returned"
    /\ last.call.value > 0
    /\ asset_pair \in Tokens
    /\ asset_pairs[last.call.asset_id] = asset_pair

====
